---- MODULE Spec2Model ----
(***************************************************************************)
(* Model of the precomputed lookup tables (src/lookup.rs) and of the       *)
(* extension field Fp6 (src/fp6.rs) of the cheetah curve crate.            *)
(*                                                                         *)
(* The curve layer (AffinePoint, ProjectivePoint), the scalar field and    *)
(* the constants module are not part of the sources at hand.  They are     *)
(* modelled from the design description: the group of curve points is an   *)
(* abstract cyclic group of GroupOrder elements, an affine point is the    *)
(* group element, a projective point is the group element together with a  *)
(* scaling z of its coordinates (z = 0 exactly for the identity).          *)
(***************************************************************************)
EXTENDS Integers, Sequences, FiniteSets, TLC

VARIABLES
    debug,      \* build profile: TRUE when debug assertions / overflow checks are compiled in
    base,       \* the projective point handed to the constructor
    lt,         \* LookupTable<N>.0 : the array of N affine points (<<>> before construction)
    ltN,        \* the const generic N of the table
    ltBuilt,    \* TRUE once LookupTable::from has run
    ltOrig,     \* the entries produced by the constructor (history variable)
    bpt,        \* BasePointTable.0 : 32 arrays of 8 affine points (<<>> before construction)
    bptOrig,    \* the entries produced by BasePointTable::create (history variable)
    op,         \* name of the last operation executed
    arg,        \* the digit handed to the last table lookup
    scalar,     \* the 32 scalar bytes handed to the last multiplication
    digits,     \* the signed radix-16 digits the last multiplication computed from them
    ret,        \* its return value, [kind |-> "point" | "panic" | "none", ...]
    steps,      \* the primitive operations the last table lookup executed, in order
    accs,       \* the values taken by the accumulator of the last multiply, in order
    calls,      \* the operand pairs of the add_mixed_unchecked calls of the last multiply
    fa,         \* Fp6 machine: the operand
    fb,         \* Fp6 machine: the second operand
    fres,       \* Fp6 machine: the result of the last field operation
    fmemo       \* sqrt_vartime step by step: the values of the residue check, of the loop
                \* test and of the rest of the function for the input, computed once

vars == <<debug, base, lt, ltN, ltBuilt, ltOrig, bpt, bptOrig, op, arg, scalar, digits, ret,
          steps, accs, calls, fa, fb, fres, fmemo>>

lookupVars == <<lt, ltN, ltBuilt, ltOrig>>
baseVars == <<bpt, bptOrig>>
fieldVars == <<fa, fb, fres, fmemo>>

(***************************************************************************)
(* Bounds of the model.                                                    *)
(***************************************************************************)
GroupOrder == 11     \* number of elements of the model's group of points
MaxZ == 2            \* number of distinct non-zero coordinate scalings
MaxN == 4            \* largest table size N explored for LookupTable<N>
DigitSlack == 2      \* how far beyond [-N, N] the digits handed to a lookup range
MaxCoeff == 4        \* largest base field coefficient of the operands of the field operations
MaxSqrtCoeff == 1    \* largest base field coefficient of the elements squared and rooted
ExpBits == 16        \* number of exponent bits the exponentiations walk through

(***************************************************************************)
(* Fixed-width integer helpers (Rust i8 / u8 semantics).                   *)
(***************************************************************************)
Mod(a, m) == ((a % m) + m) % m

AsU8(v) == Mod(v, 256)

AsI8(v) == Mod(v + 128, 256) - 128

\* i8 >> 7 is an arithmetic shift: all ones (-1) for a negative value, 0 otherwise
Shr7(x) == IF x < 0 THEN -1 ELSE 0

RECURSIVE BitXor(_, _, _)
BitXor(a, b, w) ==
    IF w = 0 THEN 0
    ELSE (((a % 2) + (b % 2)) % 2) + 2 * BitXor(a \div 2, b \div 2, w - 1)

RECURSIVE BitAnd(_, _, _)
BitAnd(a, b, w) ==
    IF w = 0 THEN 0
    ELSE ((a % 2) * (b % 2)) + 2 * BitAnd(a \div 2, b \div 2, w - 1)

\* ^ and & on i8 values, computed on the two's complement bit patterns
XorI8(a, b) == AsI8(BitXor(AsU8(a), AsU8(b), 8))
AndI8(a, b) == AsI8(BitAnd(AsU8(a), AsU8(b), 8))

\* i8 addition overflows outside [-128, 127]
AddOverflowsI8(a, b) == (a + b < -128) \/ (a + b > 127)

(***************************************************************************)
(* The group of points (curve layer).                                      *)
(***************************************************************************)
Group == 0 .. (GroupOrder - 1)

GAdd(a, b) == (a + b) % GroupOrder
GNeg(a) == (GroupOrder - a) % GroupOrder

AffinePoints == [g : Group]
ProjectivePoints ==
    {[g |-> 0, z |-> 0]} \cup [g : Group \ {0}, z : 1 .. MaxZ]

AffineIdentity == [g |-> 0]
AffineIsIdentity(a) == a.g = 0
AffineNeg(a) == [g |-> GNeg(a.g)]
\* AffinePoint::zeroize resets the point to its default value, the identity
AffineZeroize(a) == AffineIdentity

ProjectiveIdentity == [g |-> 0, z |-> 0]
ProjectiveIsIdentity(p) == p.z = 0
\* equality of projective points cross-multiplies the coordinates: it
\* compares the points, not their scalings
ProjectiveEq(p, q) == p.g = q.g
ProjectiveFromAffine(a) == [g |-> a.g, z |-> IF a.g = 0 THEN 0 ELSE 1]
AffineFromProjective(p) == [g |-> p.g]

\* scaling of the coordinates of a result, from the scalings of the operands
ScaleMix(z1, z2) == 1 + ((z1 + z2) % MaxZ)
Scaled(g, z) == [g |-> g, z |-> IF g = 0 THEN 0 ELSE z]

\* &ProjectivePoint + ProjectivePoint : the complete (checked) addition
ProjectiveAdd(p, q) == Scaled(GAdd(p.g, q.g), ScaleMix(p.z, q.z))

ProjectiveDouble(p) == Scaled(GAdd(p.g, p.g), ScaleMix(p.z, p.z))

RECURSIVE double_multi(_, _)
double_multi(p, k) ==
    IF k = 0 THEN p ELSE double_multi(ProjectiveDouble(p), k - 1)

\* The edge cases the unchecked mixed addition is not required to handle
AccIsIdentity(p, a) == ProjectiveIsIdentity(p)
RhsIsIdentity(p, a) == AffineIsIdentity(a)
SamePoint(p, a) == ~ProjectiveIsIdentity(p) /\ ~AffineIsIdentity(a) /\ p.g = a.g
OppositePoint(p, a) ==
    ~ProjectiveIsIdentity(p) /\ ~AffineIsIdentity(a) /\ p.g = GNeg(a.g)

\* ProjectivePoint::add_mixed_unchecked.  Outside the edge cases it is the
\* sum.  An identity on the right leaves the accumulator unchanged.  In the
\* other edge cases the incomplete formula yields Z3 = 0: the difference of
\* the x coordinates and Z1 are factors of Z3.
add_mixed_unchecked(p, a) ==
    IF RhsIsIdentity(p, a) THEN p
    ELSE IF AccIsIdentity(p, a) \/ SamePoint(p, a) \/ OppositePoint(p, a)
         THEN ProjectiveIdentity
    ELSE Scaled(GAdd(p.g, a.g), ScaleMix(p.z, 1))

\* ProjectivePoint::batch_normalize : every point divided by its scaling
batch_normalize(points) ==
    [i \in DOMAIN points |-> AffineFromProjective(points[i])]

(***************************************************************************)
(* LookupTable<N>  (src/lookup.rs)                                         *)
(***************************************************************************)
\* the loop  for i in 1..N { points[i] = p + points[i - 1]; }
\* (points[i] of the code is points[i + 1] of the sequence)
RECURSIVE FromLoop(_, _, _, _)
FromLoop(p, n, i, points) ==
    IF i >= n THEN points
    ELSE FromLoop(p, n, i + 1,
                  [points EXCEPT ![i + 1] = ProjectiveAdd(p, points[i])])

\* faulty variant: the loop starts one index too late
LookupTableFrom_LateStart(p, n) ==
    LET points == FromLoop(p, n, 2, [i \in 1 .. n |-> p])
    IN  batch_normalize(points)
\* impl From<&ProjectivePoint> for LookupTable<N>
LookupTableFrom(p, n) ==
    LET points == FromLoop(p, n, 1, [i \in 1 .. n |-> p])
    IN  batch_normalize(points)

\* faulty variant: only the first entry is cleared
LookupTableZeroize_FirstOnly(tbl) ==
    [i \in DOMAIN tbl |-> IF i = 1 THEN AffineZeroize(tbl[i]) ELSE tbl[i]]
\* impl Zeroize for LookupTable<N>
LookupTableZeroize(tbl) == [i \in DOMAIN tbl |-> AffineZeroize(tbl[i])]

\* subtle: ct_eq on u8, conditional_assign on AffinePoint
CtEq(a, b) == IF a = b THEN 1 ELSE 0
ConditionalSelect(a, b, c) == IF c = 1 THEN b ELSE a

Panic == [kind |-> "panic"]
Point(t) == [kind |-> "point", v |-> t]
NoValue == [kind |-> "none"]

\* the two debug_assert! of get_point / get_point_vartime and the overflow
\* check of  x + xmask ; all three are compiled in only in a debug build
RangeAssertFails(n, x) == ~(x >= -AsI8(n)) \/ ~(x <= AsI8(n))
LookupPanics(n, x, dbg) ==
    dbg /\ (RangeAssertFails(n, x) \/ AddOverflowsI8(x, Shr7(x)))

\* faulty variant: the shift is logical, the mask of a negative digit is 1
xmaskOf_LogicalShift(x) == AsU8(x) \div 128
xmaskOf(x) == Shr7(x)
\* faulty variant: the sum is not XORed with the mask
xabsOf_NoXor(x) == AsI8(x + xmaskOf(x))
xabsOf(x) == XorI8(AsI8(x + xmaskOf(x)), xmaskOf(x))

\* faulty variant: the entry is read only when the comparison succeeds
ScanStep_Branching(tbl, xabs, j, st) ==
    IF AsU8(xabs) = AsU8(j)
    THEN [t |-> tbl[j],
          steps |-> st.steps \o <<<<"ct_eq", j>>, <<"conditional_assign", j - 1>>>>]
    ELSE [t |-> st.t, steps |-> st.steps \o <<<<"ct_eq", j>>>>]
\* one iteration of the scan of get_point:
\*   let c = (xabs as u8).ct_eq(&(j as u8));  t.conditional_assign(&self.0[j - 1], c);
\* st = [t, steps]
ScanStep(tbl, xabs, j, st) ==
    LET c == CtEq(AsU8(xabs), AsU8(j))
    IN  [t |-> ConditionalSelect(st.t, tbl[j], c),
         steps |-> st.steps \o <<<<"ct_eq", j>>, <<"conditional_assign", j - 1>>>>]

\* the scan  for j in 1..N + 1  of get_point
RECURSIVE GetPointLoop(_, _, _, _)
GetPointLoop(tbl, xabs, j, st) ==
    IF j >= Len(tbl) + 1 THEN st
    ELSE GetPointLoop(tbl, xabs, j + 1, ScanStep(tbl, xabs, j, st))

\* faulty variant: the selected entry is never negated
GetPointRun_NoNegate(tbl, x) ==
    LET xabs == xabsOf(x)
        scan == GetPointLoop(tbl, xabs, 1, [t |-> AffineIdentity, steps |-> <<>>])
    IN  [t |-> scan.t, steps |-> scan.steps \o <<<<"conditional_negate", 0>>>>]
\* LookupTable::get_point without its assertions: [t, steps]
GetPointRun(tbl, x) ==
    LET xmask == xmaskOf(x)
        xabs == xabsOf(x)
        scan == GetPointLoop(tbl, xabs, 1, [t |-> AffineIdentity, steps |-> <<>>])
        neg_mask == AsU8(AndI8(xmask, 1))
    IN  [t |-> ConditionalSelect(scan.t, AffineNeg(scan.t), neg_mask),
         steps |-> scan.steps \o <<<<"conditional_negate", 0>>>>]

\* LookupTable::get_point
get_point(tbl, x, dbg) ==
    IF LookupPanics(Len(tbl), x, dbg) THEN Panic ELSE Point(GetPointRun(tbl, x).t)

get_point_steps(tbl, x, dbg) ==
    IF LookupPanics(Len(tbl), x, dbg) THEN <<>> ELSE GetPointRun(tbl, x).steps

\* the scan of get_point_vartime
RECURSIVE GetPointVartimeLoop(_, _, _, _)
GetPointVartimeLoop(tbl, xabs, j, st) ==
    IF j >= Len(tbl) + 1 THEN st
    ELSE IF xabs = j
         THEN GetPointVartimeLoop(tbl, xabs, j + 1,
                 [t |-> tbl[j],
                  steps |-> st.steps \o <<<<"cmp", j>>, <<"load", j - 1>>>>])
         ELSE GetPointVartimeLoop(tbl, xabs, j + 1,
                 [t |-> st.t, steps |-> st.steps \o <<<<"cmp", j>>>>])

\* faulty variant: the branch that negates is missing
GetPointVartimeRun_NoNegate(tbl, x) ==
    GetPointVartimeLoop(tbl, xabsOf(x), 1, [t |-> AffineIdentity, steps |-> <<>>])
\* LookupTable::get_point_vartime without its assertions: [t, steps]
GetPointVartimeRun(tbl, x) ==
    LET xmask == xmaskOf(x)
        xabs == xabsOf(x)
        \* xabs as usize sign-extends a negative i8: it then matches no index
        scan == GetPointVartimeLoop(tbl, xabs, 1,
                                    [t |-> AffineIdentity, steps |-> <<>>])
    IN  IF AndI8(xmask, 1) = 1
        THEN [t |-> AffineNeg(scan.t), steps |-> scan.steps \o <<<<"negate", 0>>>>]
        ELSE scan

\* LookupTable::get_point_vartime
get_point_vartime(tbl, x, dbg) ==
    IF LookupPanics(Len(tbl), x, dbg) THEN Panic
    ELSE Point(GetPointVartimeRun(tbl, x).t)

get_point_vartime_steps(tbl, x, dbg) ==
    IF LookupPanics(Len(tbl), x, dbg) THEN <<>>
    ELSE GetPointVartimeRun(tbl, x).steps

(***************************************************************************)
(* Scalar digits and constants (scalar and constants modules).             *)
(***************************************************************************)
NumTables == 32      \* BasePointTable holds [LookupTable<8>; 32]
TableSize == 8
NumDigits == 64      \* digits of a scalar in signed radix 16

\* Scalar::bytes_to_radix_16, step 1: the 64 nibbles, low nibble first
\* (digit i of the code is element i + 1 of the sequence)
Nibbles(bytes) ==
    [k \in 1 .. NumDigits |->
        IF (k - 1) % 2 = 0 THEN bytes[((k - 1) \div 2) + 1] % 16
        ELSE (bytes[((k - 1) \div 2) + 1] \div 16) % 16]

\* step 2: recenter digits 0..62 from [0, 16) to [-8, 8), carrying upwards
RECURSIVE Recenter(_, _)
Recenter(output, i) ==
    IF i >= Len(output) - 1 THEN output
    ELSE LET carry == (output[i + 1] + 8) \div 16
         IN  Recenter([output EXCEPT ![i + 1] = output[i + 1] - carry * 16,
                                     ![i + 2] = output[i + 2] + carry],
                      i + 1)

bytes_to_radix_16(bytes) == Recenter(Nibbles(bytes), 0)

\* the fixed, public shift point and the negated multiples -(2^i * SHIFT_POINT)
SHIFT_POINT == [g |-> 1, z |-> 1]
MINUS_SHIFT_POINT_ARRAY ==
    [i \in 0 .. 4 |-> AffineNeg(AffineFromProjective(double_multi(SHIFT_POINT, i)))]

(***************************************************************************)
(* BasePointTable  (src/lookup.rs)                                         *)
(***************************************************************************)
\* the values of  point  in BasePointTable::create: the base point, then
\* point = point.double_multi(8)  in each iteration of  for i in 1..32
\* (points[i + 1] is the value used for table.0[i])
RECURSIVE CreatePoints(_)
CreatePoints(points) ==
    IF Len(points) >= NumTables THEN points
    ELSE CreatePoints(Append(points, double_multi(points[Len(points)], 8)))

\* faulty variant: every table is built from the base point itself
BasePointTableCreate_NoDoubling(basepoint) ==
    [i \in 1 .. NumTables |-> LookupTableFrom(basepoint, TableSize)]
\* BasePointTable::create: table.0[0] is built from the base point, table.0[i]
\* from the i-th value of  point
BasePointTableCreate(basepoint) ==
    LET points == CreatePoints(<<basepoint>>)
    IN  [i \in 1 .. NumTables |-> LookupTableFrom(points[i], TableSize)]

\* acc = acc.add_mixed_unchecked(&t) for the point t returned by the lookup
\* r (a lookup that panics ends the call); st = [acc, accs, calls, panic]
Accumulate(st, r) ==
    IF r.kind = "panic" THEN [st EXCEPT !.panic = TRUE]
    ELSE LET acc == add_mixed_unchecked(st.acc, r.v)
         IN  [st EXCEPT !.acc = acc,
                        !.accs = Append(st.accs, acc),
                        !.calls = Append(st.calls, <<st.acc, r.v>>)]

\* one accumulation pass of multiply: the digits i, i + 2, ... of the 64
RECURSIVE AccumulateWith(_, _, _, _, _)
AccumulateWith(tables, a, i, st, dbg) ==
    IF i >= Len(a) \/ st.panic THEN st
    ELSE AccumulateWith(tables, a, i + 2,
             Accumulate(st, get_point(tables[(i \div 2) + 1], a[i + 1], dbg)),
             dbg)

\* the body of multiply, which is also the text of multiply_vartime (both
\* call get_point):
\* [acc, accs, calls, panic, a]
MultiplyRun(tables, bytes, dbg) ==
    LET a == bytes_to_radix_16(bytes)
        seed == [acc |-> SHIFT_POINT, accs |-> <<SHIFT_POINT>>,
                 calls |-> <<>>, panic |-> FALSE, a |-> a]
        odd == AccumulateWith(tables, a, 1, seed, dbg)
        dbl == double_multi(odd.acc, 4)
        mid == [odd EXCEPT !.acc = dbl, !.accs = Append(odd.accs, dbl)]
        even == AccumulateWith(tables, a, 0, mid, dbg)
        last == add_mixed_unchecked(even.acc, MINUS_SHIFT_POINT_ARRAY[4])
    IN  IF odd.panic THEN odd
        ELSE IF even.panic THEN even
        ELSE [acc |-> last,
              accs |-> even.accs,
              calls |-> Append(even.calls, <<even.acc, MINUS_SHIFT_POINT_ARRAY[4]>>),
              panic |-> FALSE,
              a |-> a]

\* BasePointTable::multiply
multiply(tables, bytes, dbg) == MultiplyRun(tables, bytes, dbg)

\* faulty variant: the shift point is not removed at the end
multiply_vartime_ShiftKept(tables, bytes, dbg) ==
    LET r == MultiplyRun(tables, bytes, dbg)
    IN  IF r.panic THEN r ELSE [r EXCEPT !.acc = r.accs[Len(r.accs)]]
\* BasePointTable::multiply_vartime (its text calls get_point as well)
multiply_vartime(tables, bytes, dbg) == MultiplyRun(tables, bytes, dbg)

\* BasePointTable::get_basepoint / get_basepoint_vartime
get_basepoint(tables, dbg) == get_point(tables[1], 1, dbg)
get_basepoint_vartime(tables, dbg) == get_point_vartime(tables[1], 1, dbg)

(***************************************************************************)
(* The field tower below Fp6 (fp and fp2 modules).                         *)
(***************************************************************************)
\* the base field is the integers modulo a prime for which u^2 - u - 1 and
\* v^3 - v - 2 are irreducible, as they are for the prime of the crate
FpModulus == 7

FpNew(k) == Mod(k, FpModulus)
FpAdd(a, b) == Mod(a + b, FpModulus)
FpSub(a, b) == Mod(a - b, FpModulus)
FpNeg(a) == Mod(-a, FpModulus)
FpMul(a, b) == Mod(a * b, FpModulus)

Some(v) == [kind |-> "some", v |-> v]

\* a^e in Fp, by squaring
RECURSIVE FpExp(_, _)
FpExp(a, e) ==
    IF e = 0 THEN FpNew(1)
    ELSE IF e % 2 = 1 THEN FpMul(a, FpExp(a, e - 1))
    ELSE FpExp(FpMul(a, a), e \div 2)

\* Fp::invert : a^(p - 2), no value for zero
FpInvert(a) == IF a = 0 THEN NoValue ELSE Some(FpExp(a, FpModulus - 2))

\* Fp2 = Fp[u] / (u^2 - u - 1); an element is c0 + c1 * u
Fp2New(k) == [c0 |-> FpNew(k), c1 |-> 0]
Fp2Zero == [c0 |-> 0, c1 |-> 0]
Fp2One == [c0 |-> FpNew(1), c1 |-> 0]
Fp2IsZero(a) == a.c0 = 0 /\ a.c1 = 0
Fp2Add(a, b) == [c0 |-> FpAdd(a.c0, b.c0), c1 |-> FpAdd(a.c1, b.c1)]
Fp2Sub(a, b) == [c0 |-> FpSub(a.c0, b.c0), c1 |-> FpSub(a.c1, b.c1)]
Fp2Neg(a) == [c0 |-> FpNeg(a.c0), c1 |-> FpNeg(a.c1)]
Fp2Double(a) == Fp2Add(a, a)
\* (a0 + a1 u)(b0 + b1 u) with u^2 = u + 1
Fp2Mul(a, b) ==
    [c0 |-> FpAdd(FpMul(a.c0, b.c0), FpMul(a.c1, b.c1)),
     c1 |-> FpAdd(FpAdd(FpMul(a.c0, b.c1), FpMul(a.c1, b.c0)), FpMul(a.c1, b.c1))]
Fp2Square(a) == Fp2Mul(a, a)
\* Fp2::invert : the conjugate a0 + a1 - a1 u divided by the norm
\* a0^2 + a0 a1 - a1^2, no value for zero
Fp2Invert(a) ==
    LET norm == FpSub(FpAdd(FpMul(a.c0, a.c0), FpMul(a.c0, a.c1)), FpMul(a.c1, a.c1))
        t == FpInvert(norm)
    IN  IF t.kind = "none" THEN NoValue
        ELSE Some([c0 |-> FpMul(FpAdd(a.c0, a.c1), t.v),
                   c1 |-> FpMul(FpNeg(a.c1), t.v)])

(***************************************************************************)
(* Fp6 = Fp2[v] / (v^3 - v - 2)  (src/fp6.rs)                              *)
(***************************************************************************)
\* the elements of the fields
FpElements == 0 .. (FpModulus - 1)
Fp2Elements == [c0 : FpElements, c1 : FpElements]
Fp6Elements == [c0 : Fp2Elements, c1 : Fp2Elements, c2 : Fp2Elements]

Fp6Zero == [c0 |-> Fp2Zero, c1 |-> Fp2Zero, c2 |-> Fp2Zero]

Fp6One == [c0 |-> Fp2One, c1 |-> Fp2Zero, c2 |-> Fp2Zero]

Fp6IsZero(a) == Fp2IsZero(a.c0) /\ Fp2IsZero(a.c1) /\ Fp2IsZero(a.c2)

\* Fp::conditional_select and Fp2::conditional_select : a for the choice 0,
\* b for the choice 1
FpConditionalSelect(a, b, choice) == IF choice = 1 THEN b ELSE a
Fp2ConditionalSelect(a, b, choice) ==
    [c0 |-> FpConditionalSelect(a.c0, b.c0, choice),
     c1 |-> FpConditionalSelect(a.c1, b.c1, choice)]

\* faulty variant: the operands of the last coefficient are exchanged
conditional_select_Exchanged(a, b, choice) ==
    [c0 |-> Fp2ConditionalSelect(a.c0, b.c0, choice),
     c1 |-> Fp2ConditionalSelect(a.c1, b.c1, choice),
     c2 |-> Fp2ConditionalSelect(b.c2, a.c2, choice)]
\* Fp6::conditional_select
conditional_select(a, b, choice) ==
    [c0 |-> Fp2ConditionalSelect(a.c0, b.c0, choice),
     c1 |-> Fp2ConditionalSelect(a.c1, b.c1, choice),
     c2 |-> Fp2ConditionalSelect(a.c2, b.c2, choice)]

Fp6Add(a, rhs) ==
    [c0 |-> Fp2Add(a.c0, rhs.c0), c1 |-> Fp2Add(a.c1, rhs.c1), c2 |-> Fp2Add(a.c2, rhs.c2)]

Fp6Sub(a, rhs) ==
    [c0 |-> Fp2Sub(a.c0, rhs.c0), c1 |-> Fp2Sub(a.c1, rhs.c1), c2 |-> Fp2Sub(a.c2, rhs.c2)]

Fp6Neg(a) == [c0 |-> Fp2Neg(a.c0), c1 |-> Fp2Neg(a.c1), c2 |-> Fp2Neg(a.c2)]

\* Fp::lexicographically_largest : the canonical value exceeds (p - 1) / 2
FpLexicographicallyLargest(a) == a > (FpModulus - 1) \div 2

\* Fp2::lexicographically_largest : c1 decides, c0 when c1 is zero
Fp2LexicographicallyLargest(a) ==
    \/ FpLexicographicallyLargest(a.c1)
    \/ (a.c1 = 0 /\ FpLexicographicallyLargest(a.c0))

\* Fp6::lexicographically_largest
lexicographically_largest(a) ==
    \/ Fp2LexicographicallyLargest(a.c2)
    \/ (Fp2IsZero(a.c2) /\ Fp2LexicographicallyLargest(a.c1))
    \/ (Fp2IsZero(a.c1) /\ Fp2LexicographicallyLargest(a.c0))

\* faulty variant: bb is subtracted from c1 only once
Fp6Mul_SingleSubtraction(a, other) ==
    LET aa == Fp2Mul(a.c0, other.c0)
        bb == Fp2Mul(a.c1, other.c1)
        cc == Fp2Mul(a.c2, other.c2)
        tmp0 == Fp2Mul(Fp2Add(a.c1, a.c2), Fp2Add(other.c1, other.c2))
        tmp1 == Fp2Mul(Fp2Add(a.c0, a.c1), Fp2Add(other.c0, other.c1))
        tmp2 == Fp2Mul(Fp2Add(a.c0, a.c2), Fp2Add(other.c0, other.c2))
        c0 == Fp2Add(Fp2Double(Fp2Sub(Fp2Sub(tmp0, bb), cc)), aa)
        c1 == Fp2Add(Fp2Sub(Fp2Sub(Fp2Add(tmp0, tmp1), aa), bb), cc)
        c2 == Fp2Add(Fp2Sub(tmp2, aa), bb)
    IN  [c0 |-> c0, c1 |-> c1, c2 |-> c2]
\* Fp6::mul
Fp6Mul(a, other) ==
    LET aa == Fp2Mul(a.c0, other.c0)
        bb == Fp2Mul(a.c1, other.c1)
        cc == Fp2Mul(a.c2, other.c2)
        tmp0 == Fp2Mul(Fp2Add(a.c1, a.c2), Fp2Add(other.c1, other.c2))
        tmp1 == Fp2Mul(Fp2Add(a.c0, a.c1), Fp2Add(other.c0, other.c1))
        tmp2 == Fp2Mul(Fp2Add(a.c0, a.c2), Fp2Add(other.c0, other.c2))
        c0 == Fp2Add(Fp2Double(Fp2Sub(Fp2Sub(tmp0, bb), cc)), aa)
        c1 == Fp2Add(Fp2Sub(Fp2Sub(Fp2Sub(Fp2Add(tmp0, tmp1), aa), bb), bb), cc)
        c2 == Fp2Add(Fp2Sub(tmp2, aa), bb)
    IN  [c0 |-> c0, c1 |-> c1, c2 |-> c2]

\* faulty variant: the first coefficient is not doubled
Fp6Square_NoDoubling(a) ==
    LET aa == Fp2Mul(a.c0, a.c0)
        bb == Fp2Mul(a.c1, a.c1)
        cc == Fp2Mul(a.c2, a.c2)
        tmp0 == Fp2Mul(Fp2Add(a.c1, a.c2), Fp2Add(a.c1, a.c2))
        tmp1 == Fp2Mul(Fp2Add(a.c0, a.c1), Fp2Add(a.c0, a.c1))
        tmp2 == Fp2Mul(Fp2Add(a.c0, a.c2), Fp2Add(a.c0, a.c2))
        c0 == Fp2Add(Fp2Sub(Fp2Sub(tmp0, bb), cc), aa)
        c1 == Fp2Add(Fp2Sub(Fp2Sub(Fp2Sub(Fp2Add(tmp0, tmp1), aa), bb), bb), cc)
        c2 == Fp2Add(Fp2Sub(tmp2, aa), bb)
    IN  [c0 |-> c0, c1 |-> c1, c2 |-> c2]
\* Fp6::square
Fp6Square(a) ==
    LET aa == Fp2Mul(a.c0, a.c0)
        bb == Fp2Mul(a.c1, a.c1)
        cc == Fp2Mul(a.c2, a.c2)
        tmp0 == Fp2Mul(Fp2Add(a.c1, a.c2), Fp2Add(a.c1, a.c2))
        tmp1 == Fp2Mul(Fp2Add(a.c0, a.c1), Fp2Add(a.c0, a.c1))
        tmp2 == Fp2Mul(Fp2Add(a.c0, a.c2), Fp2Add(a.c0, a.c2))
        c0 == Fp2Add(Fp2Double(Fp2Sub(Fp2Sub(tmp0, bb), cc)), aa)
        c1 == Fp2Add(Fp2Sub(Fp2Sub(Fp2Sub(Fp2Add(tmp0, tmp1), aa), bb), bb), cc)
        c2 == Fp2Add(Fp2Sub(tmp2, aa), bb)
    IN  [c0 |-> c0, c1 |-> c1, c2 |-> c2]

\* R = 2^64 modulo p, the Montgomery radix of Fp
MontgomeryR == FpExp(FpNew(2), 64)

\* the field .0 of an Fp, the element in Montgomery form: a * R modulo p
FpInner(a) == FpMul(a, MontgomeryR)

\* Fp::montgomery_reduce : x / R modulo p
montgomery_reduce(x) == FpMul(x, FpInvert(MontgomeryR).v)

\* u64::to_le_bytes of v, and of the least significant n bytes of v
RECURSIVE LeBytes(_, _)
LeBytes(v, n) == IF n = 0 THEN <<>> ELSE <<v % 256>> \o LeBytes(v \div 256, n - 1)
to_le_bytes(v) == LeBytes(v, 8)

\* u64::from_le_bytes
RECURSIVE from_le_bytes(_)
from_le_bytes(b) == IF Len(b) = 0 THEN 0 ELSE b[1] + 256 * from_le_bytes(Tail(b))

\* faulty variant: the coefficients are left in Montgomery form
to_repr_NotReduced(a) ==
    <<FpInner(a.c0.c0), FpInner(a.c0.c1),
      FpInner(a.c1.c0), FpInner(a.c1.c1),
      FpInner(a.c2.c0), FpInner(a.c2.c1)>>
\* Fp6::to_repr
to_repr(a) ==
    <<montgomery_reduce(FpInner(a.c0.c0)), montgomery_reduce(FpInner(a.c0.c1)),
      montgomery_reduce(FpInner(a.c1.c0)), montgomery_reduce(FpInner(a.c1.c1)),
      montgomery_reduce(FpInner(a.c2.c0)), montgomery_reduce(FpInner(a.c2.c1))>>

\* Fp6::to_bytes
to_bytes(a) ==
    LET tmp == to_repr(a)
    IN  to_le_bytes(tmp[1]) \o to_le_bytes(tmp[2]) \o to_le_bytes(tmp[3])
            \o to_le_bytes(tmp[4]) \o to_le_bytes(tmp[5]) \o to_le_bytes(tmp[6])

\* Fp6::from_bytes
from_bytes(bytes) ==
    [c0 |-> [c0 |-> FpNew(from_le_bytes(SubSeq(bytes, 1, 8))),
             c1 |-> FpNew(from_le_bytes(SubSeq(bytes, 9, 16)))],
     c1 |-> [c0 |-> FpNew(from_le_bytes(SubSeq(bytes, 17, 24))),
             c1 |-> FpNew(from_le_bytes(SubSeq(bytes, 25, 32)))],
     c2 |-> [c0 |-> FpNew(from_le_bytes(SubSeq(bytes, 33, 40))),
             c1 |-> FpNew(from_le_bytes(SubSeq(bytes, 41, 48)))]]

\* faulty variant: the second cofactor is not negated
Fp6Invert_NoNegation(a) ==
    LET three == Fp2New(3)
        two == Fp2New(2)
        four == Fp2New(4)
        c0_sq == Fp2Square(a.c0)
        c1_sq == Fp2Square(a.c1)
        c2_sq == Fp2Square(a.c2)
        two_c1 == Fp2Mul(two, a.c1)
        c0_c1 == Fp2Mul(a.c0, a.c1)
        inv == Fp2Add(Fp2Add(Fp2Add(Fp2Add(
                   Fp2Sub(Fp2Mul(a.c0, c0_sq), Fp2Mul(a.c0, Fp2Square(a.c1))),
                   Fp2Mul(two_c1, c1_sq)),
                   Fp2Mul(Fp2Sub(a.c0, two_c1), Fp2Square(a.c2))),
                   Fp2Mul(Fp2Mul(four, a.c2), c2_sq)),
                   Fp2Mul(Fp2Mul(two, Fp2Sub(Fp2Square(a.c0), Fp2Mul(three, c0_c1))), a.c2))
        c0 == Fp2Add(Fp2Add(Fp2Sub(Fp2Square(a.c0), Fp2Square(a.c1)),
                            Fp2Mul(Fp2Mul(two, Fp2Sub(a.c0, a.c1)), a.c2)),
                     Fp2Square(a.c2))
        c1 == Fp2Sub(c0_c1, Fp2Mul(two, Fp2Square(a.c2)))
        c2 == Fp2Sub(Fp2Sub(Fp2Square(a.c1), Fp2Mul(a.c0, a.c2)), Fp2Square(a.c2))
        t == Fp2Invert(inv)
    IN  IF t.kind = "none" THEN NoValue
        ELSE Some([c0 |-> Fp2Mul(c0, t.v), c1 |-> Fp2Mul(c1, t.v), c2 |-> Fp2Mul(c2, t.v)])
\* Fp6::invert : the three cofactors divided by  inv , the norm of the
\* element down to Fp2; no value when  inv  has no inverse
Fp6Invert(a) ==
    LET three == Fp2New(3)
        two == Fp2New(2)
        four == Fp2New(4)
        c0_sq == Fp2Square(a.c0)
        c1_sq == Fp2Square(a.c1)
        c2_sq == Fp2Square(a.c2)
        two_c1 == Fp2Mul(two, a.c1)
        c0_c1 == Fp2Mul(a.c0, a.c1)
        inv == Fp2Add(Fp2Add(Fp2Add(Fp2Add(
                   Fp2Sub(Fp2Mul(a.c0, c0_sq), Fp2Mul(a.c0, Fp2Square(a.c1))),
                   Fp2Mul(two_c1, c1_sq)),
                   Fp2Mul(Fp2Sub(a.c0, two_c1), Fp2Square(a.c2))),
                   Fp2Mul(Fp2Mul(four, a.c2), c2_sq)),
                   Fp2Mul(Fp2Mul(two, Fp2Sub(Fp2Square(a.c0), Fp2Mul(three, c0_c1))), a.c2))
        c0 == Fp2Add(Fp2Add(Fp2Sub(Fp2Square(a.c0), Fp2Square(a.c1)),
                            Fp2Mul(Fp2Mul(two, Fp2Sub(a.c0, a.c1)), a.c2)),
                     Fp2Square(a.c2))
        c1 == Fp2Neg(Fp2Sub(c0_c1, Fp2Mul(two, Fp2Square(a.c2))))
        c2 == Fp2Sub(Fp2Sub(Fp2Square(a.c1), Fp2Mul(a.c0, a.c2)), Fp2Square(a.c2))
        t == Fp2Invert(inv)
    IN  IF t.kind = "none" THEN NoValue
        ELSE Some([c0 |-> Fp2Mul(c0, t.v), c1 |-> Fp2Mul(c1, t.v), c2 |-> Fp2Mul(c2, t.v)])

\* (p^6 - 1) / 2 and (p^6 + 1) / 2 for the prime p of the base field
MODULUS_MINUS_ONE_DIV_TWO == ((FpModulus ^ 6) - 1) \div 2
MODULUS_PLUS_ONE_DIV_TWO == ((FpModulus ^ 6) + 1) \div 2

\* bit i of the exponent  by
ExpBit(by, i) == (by \div (2 ^ i)) % 2

\* Fp6::exp_vartime : the bits of the exponent from the most significant
\* one down, res = res.square() and, for a set bit, res *= self.  The
\* membership tests only make each value be computed before the next step
\* uses it; they hold for every element.
RECURSIVE ExpVartimeLoop(_, _, _, _)
ExpVartimeLoop(a, by, i, res) ==
    IF i = 0 \/ a \notin Fp6Elements \/ res \notin Fp6Elements THEN res
    ELSE LET sq == Fp6Square(res)
         IN  ExpVartimeLoop(a, by, i - 1,
                 IF ExpBit(by, i - 1) = 1 /\ sq \in Fp6Elements
                 THEN Fp6Mul(sq, a) ELSE sq)

exp_vartime(a, by) == ExpVartimeLoop(a, by, ExpBits, Fp6One)

\* mul_in_fp12 of sqrt_vartime: the product in Fp6[x] / (x^2 - beta) of
\* a[1] + a[2] x  and  b[1] + b[2] x
mul_in_fp12(a, b, beta) ==
    LET v0 == Fp6Mul(a[1], b[1])
        v1 == Fp6Mul(a[2], b[2])
        c0 == Fp6Add(v0, Fp6Mul(beta, v1))
        t == Fp6Mul(Fp6Add(a[1], a[2]), Fp6Add(b[1], b[2]))
        c1 == Fp6Sub(Fp6Sub(t, v0), v1)
    IN  IF {v0, v1, t} \subseteq Fp6Elements THEN <<c0, c1>> ELSE <<v0, v1>>

\* exp_vartime_in_fp12 of sqrt_vartime
RECURSIVE ExpVartimeInFp12Loop(_, _, _, _, _)
ExpVartimeInFp12Loop(a, by, beta, i, res) ==
    IF \/ i = 0
       \/ beta \notin Fp6Elements
       \/ {a, res} \notin SUBSET (Fp6Elements \X Fp6Elements)
    THEN res
    ELSE LET sq == mul_in_fp12(res, res, beta)
         IN  ExpVartimeInFp12Loop(a, by, beta, i - 1,
                 IF ExpBit(by, i - 1) = 1 /\ sq \in (Fp6Elements \X Fp6Elements)
                 THEN mul_in_fp12(sq, a, beta) ELSE sq)

exp_vartime_in_fp12(a, by, beta) ==
    ExpVartimeInFp12Loop(a, by, beta, ExpBits, <<Fp6One, Fp6Zero>>)

Fp6FromFp2(f) == [c0 |-> f, c1 |-> Fp2Zero, c2 |-> Fp2Zero]

Diverges == [kind |-> "diverges"]

\* the loop  while (a.square() - self).exp_vartime(..) != -Fp6::one() { a += Fp6::one(); }
\* of sqrt_vartime, n increments after its start.  The loop has no state but
\* a , and a is back at its first value after p increments: when p
\* consecutive tests fail the loop never ends.
RECURSIVE SqrtSearch(_, _, _)
SqrtSearch(self, a, n) ==
    IF n >= FpModulus \/ a \notin Fp6Elements THEN Diverges
    ELSE IF exp_vartime(Fp6Sub(Fp6Square(a), self), MODULUS_MINUS_ONE_DIV_TWO)
                # Fp6Neg(Fp6One)
         THEN SqrtSearch(self, Fp6Add(a, Fp6One), n + 1)
         ELSE Some(a)

\* faulty variant: the value of the search is returned, not the root
SqrtFinish_ReturnsSearchValue(self, a) ==
    LET beta == Fp6Sub(Fp6Square(a), self)
        res == exp_vartime_in_fp12(<<a, Fp6One>>, MODULUS_PLUS_ONE_DIV_TWO, beta)
    IN  IF res[2] # Fp6Zero THEN NoValue
        ELSE IF self = Fp6Square(res[1]) THEN Some(a)
        ELSE NoValue
\* sqrt_vartime after the search has ended with  a
SqrtFinish(self, a) ==
    LET beta == Fp6Sub(Fp6Square(a), self)
        res == exp_vartime_in_fp12(<<a, Fp6One>>, MODULUS_PLUS_ONE_DIV_TWO, beta)
    IN  IF res[2] # Fp6Zero THEN NoValue
        ELSE IF self = Fp6Square(res[1]) THEN Some(res[1])
        ELSE NoValue

\* Fp6::sqrt_vartime (Cipolla's algorithm)
sqrt_vartime(self) ==
    LET check == exp_vartime(self, MODULUS_MINUS_ONE_DIV_TWO)
    IN  IF check # Fp6One THEN NoValue
        ELSE LET found == SqrtSearch(self, Fp6FromFp2(Fp2Double(Fp2One)), 0)
             IN  IF found.kind = "diverges" THEN Diverges
                 ELSE SqrtFinish(self, found.v)

(***************************************************************************)
(* The state machine of the tables.                                        *)
(***************************************************************************)
\* digits handed to a lookup of a table of size n: the range [-n, n], a few
\* digits beyond it, and the extreme i8 values
DigitInputs(n) == ((-(n + DigitSlack)) .. (n + DigitSlack)) \cup {-128, 127}

\* scalars: 32 bytes, little-endian; bytes 0 and 31 vary
LowBytes == {0, 1, 16, 247}
TopBytes == {0, 127, 128, 255}
ScalarBytes(b0, b31) ==
    [k \in 1 .. 32 |-> IF k = 1 THEN b0
                       ELSE IF k = 32 THEN b31
                       ELSE 0]
ScalarInputs ==
    {ScalarBytes(b0, b31) : b0 \in LowBytes, b31 \in TopBytes}
\* Scalar::to_bytes yields the bytes of a reduced scalar: the top bit is clear
CanonicalScalars == {s \in ScalarInputs : s[32] <= 127}

NoScalar == <<>>

Init ==
    /\ debug \in BOOLEAN
    /\ base \in ProjectivePoints
    /\ lt = <<>>
    /\ ltN = 0
    /\ ltBuilt = FALSE
    /\ ltOrig = <<>>
    /\ bpt = <<>>
    /\ bptOrig = <<>>
    /\ op = "idle"
    /\ arg = 0
    /\ scalar = NoScalar
    /\ digits = <<>>
    /\ ret = NoValue
    /\ steps = <<>>
    /\ accs = <<>>
    /\ calls = <<>>
    /\ fa = Fp6Zero
    /\ fb = Fp6Zero
    /\ fres = NoValue
    /\ fmemo = <<>>

\* no call is in progress: the previous call's result has been dropped
Idle == op = "idle"

\* LookupTable::<N>::from(&base)
From(n) ==
    /\ Idle
    /\ ~ltBuilt
    /\ bpt = <<>>
    /\ lt' = LookupTableFrom(base, n)
    /\ ltN' = n
    /\ ltBuilt' = TRUE
    /\ ltOrig' = lt'
    /\ op' = "from"
    /\ arg' = 0
    /\ scalar' = NoScalar
    /\ digits' = <<>>
    /\ ret' = NoValue
    /\ steps' = <<>>
    /\ accs' = <<>>
    /\ calls' = <<>>
    /\ UNCHANGED <<debug, base, baseVars, fieldVars>>

\* table.get_point(x)
GetPoint(x) ==
    /\ Idle
    /\ ltBuilt
    /\ op' = "get_point"
    /\ arg' = x
    /\ scalar' = NoScalar
    /\ digits' = <<>>
    /\ ret' = get_point(lt, x, debug)
    /\ steps' = get_point_steps(lt, x, debug)
    /\ accs' = <<>>
    /\ calls' = <<>>
    /\ UNCHANGED <<debug, base, lookupVars, baseVars, fieldVars>>

\* table.get_point_vartime(x)
GetPointVartime(x) ==
    /\ Idle
    /\ ltBuilt
    /\ op' = "get_point_vartime"
    /\ arg' = x
    /\ scalar' = NoScalar
    /\ digits' = <<>>
    /\ ret' = get_point_vartime(lt, x, debug)
    /\ steps' = get_point_vartime_steps(lt, x, debug)
    /\ accs' = <<>>
    /\ calls' = <<>>
    /\ UNCHANGED <<debug, base, lookupVars, baseVars, fieldVars>>

\* table.zeroize()
Zeroize ==
    /\ Idle
    /\ ltBuilt
    /\ lt' = LookupTableZeroize(lt)
    /\ op' = "zeroize"
    /\ arg' = 0
    /\ scalar' = NoScalar
    /\ digits' = <<>>
    /\ ret' = NoValue
    /\ steps' = <<>>
    /\ accs' = <<>>
    /\ calls' = <<>>
    /\ UNCHANGED <<debug, base, ltN, ltBuilt, ltOrig, baseVars, fieldVars>>

\* BasePointTable::create(&base)
Create ==
    /\ Idle
    /\ ~ltBuilt
    /\ bpt = <<>>
    /\ bpt' = BasePointTableCreate(base)
    /\ bptOrig' = bpt'
    /\ op' = "create"
    /\ arg' = 0
    /\ scalar' = NoScalar
    /\ digits' = <<>>
    /\ ret' = NoValue
    /\ steps' = <<>>
    /\ accs' = <<>>
    /\ calls' = <<>>
    /\ UNCHANGED <<debug, base, lookupVars, fieldVars>>

PointOrPanic(r) == IF r.panic THEN Panic ELSE Point(r.acc)

MultiplyStep(name, r, s) ==
    /\ op' = name
    /\ arg' = 0
    /\ scalar' = s
    /\ digits' = r.a
    /\ ret' = PointOrPanic(r)
    /\ steps' = <<>>
    /\ accs' = r.accs
    /\ calls' = r.calls
    /\ UNCHANGED <<debug, base, lookupVars, baseVars, fieldVars>>

\* table.multiply(&s)
Multiply(s) ==
    /\ Idle
    /\ bpt # <<>>
    /\ MultiplyStep("multiply", multiply(bpt, s, debug), s)

\* table.multiply_vartime(&s)
MultiplyVartime(s) ==
    /\ Idle
    /\ bpt # <<>>
    /\ MultiplyStep("multiply_vartime", multiply_vartime(bpt, s, debug), s)

\* &table * &scalar : multiply(&scalar.to_bytes())
MulScalar(s) ==
    /\ Idle
    /\ bpt # <<>>
    /\ MultiplyStep("mul", multiply(bpt, s, debug), s)

BasepointStep(name, r) ==
    /\ op' = name
    /\ arg' = 1
    /\ scalar' = NoScalar
    /\ digits' = <<>>
    /\ ret' = r
    /\ steps' = <<>>
    /\ accs' = <<>>
    /\ calls' = <<>>
    /\ UNCHANGED <<debug, base, lookupVars, baseVars, fieldVars>>

\* table.get_basepoint()
GetBasepoint ==
    /\ Idle
    /\ bpt # <<>>
    /\ BasepointStep("get_basepoint", get_basepoint(bpt, debug))

\* table.get_basepoint_vartime()
GetBasepointVartime ==
    /\ Idle
    /\ bpt # <<>>
    /\ BasepointStep("get_basepoint_vartime", get_basepoint_vartime(bpt, debug))

\* the caller drops the value returned by the previous call
Drop ==
    /\ ~Idle
    /\ op' = "idle"
    /\ arg' = 0
    /\ scalar' = NoScalar
    /\ digits' = <<>>
    /\ ret' = NoValue
    /\ steps' = <<>>
    /\ accs' = <<>>
    /\ calls' = <<>>
    /\ UNCHANGED <<debug, base, lookupVars, baseVars, fieldVars>>

Next ==
    \/ \E n \in 0 .. MaxN : From(n)
    \/ \E x \in DigitInputs(ltN) : GetPoint(x)
    \/ \E x \in DigitInputs(ltN) : GetPointVartime(x)
    \/ Zeroize
    \/ Create
    \/ GetBasepoint
    \/ GetBasepointVartime
    \/ \E s \in ScalarInputs : Multiply(s)
    \/ \E s \in ScalarInputs : MultiplyVartime(s)
    \/ \E s \in CanonicalScalars : MulScalar(s)
    \/ Drop

Spec == Init /\ [][Next]_vars

(***************************************************************************)
(* The digit of a lookup: what get_point and get_point_vartime compute     *)
(* from x before and after the scan of the table, for every table size the *)
(* digit type admits.                                                      *)
(***************************************************************************)
\* N as i8 is N up to i8::MAX
I8Max == 127

\* get_point: the assertions, xmask, xabs and neg_mask
GetPointDigit(n, x, dbg) ==
    IF LookupPanics(n, x, dbg) THEN Panic
    ELSE [kind |-> "digit",
          xmask |-> xmaskOf(x),
          xabs |-> xabsOf(x),
          neg |-> AsU8(AndI8(xmaskOf(x), 1))]

\* get_point_vartime: the assertions, xmask, xabs and the test  xmask & 1 == 1
GetPointVartimeDigit(n, x, dbg) ==
    IF LookupPanics(n, x, dbg) THEN Panic
    ELSE [kind |-> "digit",
          xmask |-> xmaskOf(x),
          xabs |-> xabsOf(x),
          neg |-> IF AndI8(xmaskOf(x), 1) = 1 THEN 1 ELSE 0]

\* ltN is the N of LookupTable<N>, arg the digit x: any value of an i8
InitDigit ==
    /\ debug \in BOOLEAN
    /\ base = ProjectiveIdentity
    /\ lt = <<>>
    /\ ltN \in 0 .. I8Max
    /\ ltBuilt = FALSE
    /\ ltOrig = <<>>
    /\ bpt = <<>>
    /\ bptOrig = <<>>
    /\ op = "idle"
    /\ arg \in (-128) .. 127
    /\ scalar = NoScalar
    /\ digits = <<>>
    /\ ret = NoValue
    /\ steps = <<>>
    /\ accs = <<>>
    /\ calls = <<>>
    /\ fa = Fp6Zero
    /\ fb = Fp6Zero
    /\ fres = NoValue
    /\ fmemo = <<>>

DigitGetPoint ==
    /\ Idle
    /\ op' = "get_point_digit"
    /\ ret' = GetPointDigit(ltN, arg, debug)
    /\ UNCHANGED <<debug, base, lookupVars, baseVars, arg, scalar, digits, steps, accs,
                   calls, fieldVars>>

DigitGetPointVartime ==
    /\ Idle
    /\ op' = "get_point_vartime_digit"
    /\ ret' = GetPointVartimeDigit(ltN, arg, debug)
    /\ UNCHANGED <<debug, base, lookupVars, baseVars, arg, scalar, digits, steps, accs,
                   calls, fieldVars>>

NextDigit ==
    \/ DigitGetPoint
    \/ DigitGetPointVartime

SpecDigit == InitDigit /\ [][NextDigit]_vars

(***************************************************************************)
(* The state machine of the field operations.                              *)
(***************************************************************************)
FpInputs == 0 .. (IF MaxCoeff < FpModulus - 1 THEN MaxCoeff ELSE FpModulus - 1)
Fp2Inputs == [c0 : FpInputs, c1 : FpInputs]
Fp6Inputs == [c0 : Fp2Inputs, c1 : Fp2Inputs, c2 : Fp2Inputs]

\* second operands: one, v, u * v^2, and 2 + (1 + 3u) v + 6u v^2
SecondOperands ==
    {Fp6One,
     [c0 |-> Fp2Zero, c1 |-> Fp2One, c2 |-> Fp2Zero],
     [c0 |-> Fp2Zero, c1 |-> Fp2Zero, c2 |-> [c0 |-> 0, c1 |-> FpNew(1)]],
     [c0 |-> Fp2New(2), c1 |-> [c0 |-> FpNew(1), c1 |-> FpNew(3)],
      c2 |-> [c0 |-> 0, c1 |-> FpNew(6)]]}

InitFp6 ==
    /\ debug = FALSE
    /\ base = ProjectiveIdentity
    /\ lt = <<>>
    /\ ltN = 0
    /\ ltBuilt = FALSE
    /\ ltOrig = <<>>
    /\ bpt = <<>>
    /\ bptOrig = <<>>
    /\ op = "idle"
    /\ arg = 0
    /\ scalar = NoScalar
    /\ digits = <<>>
    /\ ret = NoValue
    /\ steps = <<>>
    /\ accs = <<>>
    /\ calls = <<>>
    /\ fa \in Fp6Inputs
    /\ fb = Fp6Zero
    /\ fres = NoValue
    /\ fmemo = <<>>

tableVars == <<debug, base, lookupVars, baseVars, arg, scalar, digits, ret, steps, accs, calls,
               fmemo>>
tableVarsButArg == <<debug, base, lookupVars, baseVars, scalar, digits, ret, steps, accs, calls,
                     fmemo>>

\* fa.invert()
FieldInvert ==
    /\ Idle
    /\ op' = "fp6_invert"
    /\ fres' = Fp6Invert(fa)
    /\ UNCHANGED <<fa, fb, tableVars>>

\* fa * b
FieldMul(b) ==
    /\ Idle
    /\ op' = "fp6_mul"
    /\ fb' = b
    /\ fres' = Some(Fp6Mul(fa, b))
    /\ UNCHANGED <<fa, tableVars>>

\* fa.lexicographically_largest()
FieldLexicographicallyLargest ==
    /\ Idle
    /\ op' = "fp6_lexicographically_largest"
    /\ fres' = Some(lexicographically_largest(fa))
    /\ UNCHANGED <<fa, fb, tableVars>>

\* fa.to_bytes()
FieldToBytes ==
    /\ Idle
    /\ op' = "fp6_to_bytes"
    /\ fres' = Some(to_bytes(fa))
    /\ UNCHANGED <<fa, fb, tableVars>>

\* Fp6::from_bytes of the bytes the previous operation produced
FieldFromBytes ==
    /\ op = "fp6_to_bytes"
    /\ op' = "fp6_from_bytes"
    /\ fres' = Some(from_bytes(fres.v))
    /\ UNCHANGED <<fa, fb, tableVars>>

\* fa.square()
FieldSquare ==
    /\ Idle
    /\ op' = "fp6_square"
    /\ fres' = Some(Fp6Square(fa))
    /\ UNCHANGED <<fa, fb, tableVars>>

\* Fp6::conditional_select(&fa, &b, choice) ,  arg  keeps the choice
FieldConditionalSelect(b, choice) ==
    /\ Idle
    /\ op' = "fp6_conditional_select"
    /\ fb' = b
    /\ arg' = choice
    /\ fres' = Some(conditional_select(fa, b, choice))
    /\ UNCHANGED <<fa, tableVarsButArg>>

\* the caller drops the result of the previous field operation
FieldDrop ==
    /\ ~Idle
    /\ op' = "idle"
    /\ fb' = Fp6Zero
    /\ arg' = 0
    /\ fres' = NoValue
    /\ UNCHANGED <<fa, tableVarsButArg>>

NextFp6 ==
    \/ FieldInvert
    \/ \E b \in SecondOperands : FieldMul(b)
    \/ FieldLexicographicallyLargest
    \/ FieldToBytes
    \/ FieldFromBytes
    \/ FieldSquare
    \/ \E b \in SecondOperands : \E choice \in {0, 1} : FieldConditionalSelect(b, choice)
    \/ FieldDrop

SpecFp6 == InitFp6 /\ [][NextFp6]_vars

\* the elements squared and rooted
FpSqrtInputs == 0 .. (IF MaxSqrtCoeff < FpModulus - 1 THEN MaxSqrtCoeff ELSE FpModulus - 1)
Fp2SqrtInputs == [c0 : FpSqrtInputs, c1 : FpSqrtInputs]
Fp6SqrtInputs == [c0 : Fp2SqrtInputs, c1 : Fp2SqrtInputs, c2 : Fp2SqrtInputs]

\* fb is an element c, fa is c itself or c.square()
InitSqrt ==
    /\ debug = FALSE
    /\ base = ProjectiveIdentity
    /\ lt = <<>>
    /\ ltN = 0
    /\ ltBuilt = FALSE
    /\ ltOrig = <<>>
    /\ bpt = <<>>
    /\ bptOrig = <<>>
    /\ op = "idle"
    /\ arg = 0
    /\ scalar = NoScalar
    /\ digits = <<>>
    /\ ret = NoValue
    /\ steps = <<>>
    /\ accs = <<>>
    /\ calls = <<>>
    /\ fb \in Fp6SqrtInputs
    /\ fa \in {fb, Fp6Square(fb)}
    /\ fres = NoValue
    /\ fmemo = <<>>

\* fa.sqrt_vartime()
FieldSqrt ==
    /\ Idle
    /\ op' = "fp6_sqrt"
    /\ fres' = sqrt_vartime(fa)
    /\ UNCHANGED <<fa, fb, tableVars>>

\* the caller drops the result of the square root
FieldSqrtDrop ==
    /\ ~Idle
    /\ op' = "idle"
    /\ fres' = NoValue
    /\ UNCHANGED <<fa, fb, tableVars>>

NextSqrt ==
    \/ FieldSqrt
    \/ FieldSqrtDrop

SpecSqrt == InitSqrt /\ [][NextSqrt]_vars

(***************************************************************************)
(* sqrt_vartime step by step: one action per iteration of its search loop. *)
(* fa is self, fb is the variable a of the loop.                           *)
(***************************************************************************)
\* the inputs: elements c whose c1 and c2 lie in the base field, and their
\* squares
SqrtLoopInputs ==
    LET elements == [c0 : Fp2SqrtInputs,
                     c1 : [c0 : FpSqrtInputs, c1 : {0}],
                     c2 : [c0 : FpSqrtInputs, c1 : {0}]]
    IN  elements \cup {Fp6Square(c) : c \in elements}

\* the condition of the while loop of sqrt_vartime
SqrtLoopCondition(self, a) ==
    exp_vartime(Fp6Sub(Fp6Square(a), self), MODULUS_MINUS_ONE_DIV_TWO) # Fp6Neg(Fp6One)

\* what sqrt_vartime computes from self: whether the residue check fails,
\* and for each value a of the loop variable whether the loop goes on and
\* what is returned when it does not.  The loop variable starts at 2 and only
\* has one added: it stays an element of the base field.
SqrtMemo(self) ==
    LET fails == exp_vartime(self, MODULUS_MINUS_ONE_DIV_TWO) # Fp6One
        Fp6FromFp(n) == Fp6FromFp2([c0 |-> n, c1 |-> 0])
    IN  [fails |-> fails,
         loop |-> [n \in FpElements |->
                      IF fails THEN [goes_on |-> FALSE, result |-> NoValue]
                      ELSE IF SqrtLoopCondition(self, Fp6FromFp(n))
                           THEN [goes_on |-> TRUE, result |-> NoValue]
                           ELSE [goes_on |-> FALSE,
                                 result |-> SqrtFinish(self, Fp6FromFp(n))]]]

InitSqrtLoop ==
    /\ debug = FALSE
    /\ base = ProjectiveIdentity
    /\ lt = <<>>
    /\ ltN = 0
    /\ ltBuilt = FALSE
    /\ ltOrig = <<>>
    /\ bpt = <<>>
    /\ bptOrig = <<>>
    /\ op = "idle"
    /\ arg = 0
    /\ scalar = NoScalar
    /\ digits = <<>>
    /\ ret = NoValue
    /\ steps = <<>>
    /\ accs = <<>>
    /\ calls = <<>>
    /\ fa \in SqrtLoopInputs
    /\ fb = Fp6Zero
    /\ fres = NoValue
    /\ fmemo = SqrtMemo(fa)

\* the residue check: None is returned, or the loop is entered with a = 2
SqrtCheck ==
    /\ Idle
    /\ IF fmemo.fails
       THEN /\ op' = "fp6_sqrt_done"
            /\ fres' = NoValue
            /\ fb' = fb
       ELSE /\ op' = "fp6_sqrt_search"
            /\ fres' = fres
            /\ fb' = Fp6FromFp2(Fp2Double(Fp2One))
    /\ UNCHANGED <<fa, tableVars>>

\* one iteration of the loop: a += Fp6::one()
SqrtLoopBody ==
    /\ op = "fp6_sqrt_search"
    /\ fmemo.loop[fb.c0.c0].goes_on
    /\ fb' = Fp6Add(fb, Fp6One)
    /\ UNCHANGED <<op, fa, fres, tableVars>>

\* the loop is left and the root is computed from a
SqrtLoopExit ==
    /\ op = "fp6_sqrt_search"
    /\ ~fmemo.loop[fb.c0.c0].goes_on
    /\ op' = "fp6_sqrt_done"
    /\ fres' = fmemo.loop[fb.c0.c0].result
    /\ UNCHANGED <<fa, fb, tableVars>>

NextSqrtLoop ==
    \/ SqrtCheck
    \/ SqrtLoopBody
    \/ SqrtLoopExit

\* the call runs on: a step that can be taken is taken
SpecSqrtLoop == InitSqrtLoop /\ [][NextSqrtLoop]_vars /\ WF_vars(NextSqrtLoop)

(***************************************************************************)
(* Reference values: multiples of the base point computed in the group.    *)
(***************************************************************************)
\* k * g in the group, for any integer k
GMul(k, g) == Mod(k * g, GroupOrder)

\* b^e modulo the group order, by squaring
RECURSIVE PowMod(_, _)
PowMod(b, e) ==
    IF e = 0 THEN 1 % GroupOrder
    ELSE IF e % 2 = 1 THEN Mod(b * PowMod(b, e - 1), GroupOrder)
    ELSE Mod(PowMod(b, e \div 2) * PowMod(b, e \div 2), GroupOrder)

InRange(x, n) == x >= -n /\ x <= n

TableAsBuilt == ltBuilt /\ lt = ltOrig

\* C1: for a table built from P and every digit x in [-N, N], get_point(x)
\* returns x*P: the entry at index x-1 when x > 0, the negation of the entry
\* at index |x|-1 when x < 0, the affine identity when x = 0
C1_GetPointReturnsMultiple ==
    (op = "get_point" /\ TableAsBuilt /\ InRange(arg, ltN)) =>
        /\ ret.kind = "point"
        /\ ret.v = [g |-> GMul(arg, base.g)]
        /\ arg > 0 => ret.v = lt[arg]
        /\ arg < 0 => ret.v = AffineNeg(lt[-arg])
        /\ arg = 0 => ret.v = AffineIdentity

C1_Witness ==
    /\ op = "get_point" /\ TableAsBuilt /\ ltN >= 2 /\ arg = -ltN
    /\ ret.kind = "point" /\ ~AffineIsIdentity(ret.v)
    /\ ret.v # lt[-arg]

\* C2: for every table size N and every digit x in [-N, N] the constant-time
\* and the variable-time lookup return the same affine point
C2_VartimeAgrees ==
    /\ (op = "get_point" /\ InRange(arg, ltN)) =>
           ret = get_point_vartime(lt, arg, debug)
    /\ (op = "get_point_vartime" /\ InRange(arg, ltN)) =>
           ret = get_point(lt, arg, debug)

C2_Witness ==
    /\ op = "get_point_vartime" /\ TableAsBuilt /\ arg < -1 /\ InRange(arg, ltN)
    /\ ret.kind = "point" /\ ~AffineIsIdentity(ret.v)

\* C3: for every table size N and every digit x in [-N, N], x = 0 included,
\* get_point(x) is the negation of get_point(-x)
C3_NegationSymmetry ==
    (op = "get_point" /\ InRange(arg, ltN)) =>
        /\ ret.kind = "point"
        /\ get_point(lt, -arg, debug).kind = "point"
        /\ ret.v = AffineNeg(get_point(lt, -arg, debug).v)

C3_Witness ==
    /\ op = "get_point" /\ TableAsBuilt /\ arg > 0 /\ InRange(arg, ltN)
    /\ ret.kind = "point" /\ ret.v # AffineNeg(ret.v)

\* C4: LookupTable<N>::from(P) stores the affine form of i*P at index i-1 for
\* every i in 1..N
C4_FromStoresMultiples ==
    (op = "from") =>
        /\ Len(lt) = ltN
        /\ \A i \in 1 .. ltN : lt[i] = [g |-> GMul(i, base.g)]

C4_Witness ==
    /\ op = "from" /\ ltN >= 3
    /\ \A i, j \in 1 .. ltN : i # j => lt[i] # lt[j]

\* C5: BasePointTable::create(P) returns 32 tables of size 8; entry j-1 of
\* table i is j * 2^(8i) * P for i in 0..31 and j in 1..8
C5_CreateStoresScaledMultiples ==
    (op = "create") =>
        /\ Len(bpt) = NumTables
        /\ \A i \in 0 .. (NumTables - 1) :
              /\ Len(bpt[i + 1]) = TableSize
              /\ \A j \in 1 .. TableSize :
                    bpt[i + 1][j] = [g |-> GMul(j * PowMod(256, i), base.g)]

C5_Witness ==
    /\ op = "create"
    /\ ~AffineIsIdentity(bpt[1][1])
    /\ bpt[2][1] # bpt[1][1]
    /\ bpt[NumTables][TableSize] # bpt[1][TableSize]

\* the integer  sum of a[i] * 16^i  over the digits lo..hi, reduced modulo
\* the group order (digit i is element i + 1 of the sequence)
RECURSIVE DigitsValue(_, _, _)
DigitsValue(a, lo, hi) ==
    IF lo = hi THEN Mod(a[lo + 1] * PowMod(16, lo), GroupOrder)
    ELSE Mod(DigitsValue(a, lo, (lo + hi) \div 2)
             + DigitsValue(a, ((lo + hi) \div 2) + 1, hi), GroupOrder)

DigitsInRange == \A i \in 1 .. Len(digits) : digits[i] >= -8 /\ digits[i] <= 8

\* C6: for every scalar whose 64 digits lie in [-8, 8], multiply returns
\* (sum of a[i] * 16^i) * P, the shift point being cancelled exactly
C6_MultiplyReturnsScalarMultiple ==
    (op = "multiply" /\ DigitsInRange) =>
        /\ ret.kind = "point"
        /\ ProjectiveEq(ret.v, [g |-> GMul(DigitsValue(digits, 0, NumDigits - 1), base.g), z |-> 1])

\* C7: the accumulator of multiply is never the identity: not after the
\* seeding, not after any of the 64 mixed additions, not after the doublings
C7_AccumulatorNeverIdentity ==
    (op = "multiply") =>
        \A i \in 1 .. Len(accs) : ~ProjectiveIsIdentity(accs[i])

\* the operations get_point executes on a table of size n, whatever the digit
ScanOf(n) ==
    [k \in 1 .. 2 * n |->
        IF k % 2 = 1 THEN <<"ct_eq", (k + 1) \div 2>>
        ELSE <<"conditional_assign", (k \div 2) - 1>>]
    \o <<<<"conditional_negate", 0>>>>

\* C8: the sequence of operations of get_point does not depend on the digit:
\* for any two digits in [-N, N] the same N comparisons against 1..N, the
\* same N conditional assignments reading every entry once in order, and one
\* conditional negation
C8_DigitIndependentSteps ==
    (op = "get_point" /\ InRange(arg, ltN)) =>
        /\ steps = ScanOf(ltN)
        /\ \A x2 \in (-ltN) .. ltN : get_point_steps(lt, x2, debug) = steps

C8_Witness ==
    /\ op = "get_point" /\ TableAsBuilt /\ ltN >= 3 /\ arg = 2
    /\ Len(steps) = 2 * ltN + 1
    /\ ret.kind = "point" /\ ~AffineIsIdentity(ret.v)

\* C9 as stated: after any sequence of operations, zeroize included, the
\* entries of a table are the ones produced when it was built
C9_EntriesAsBuilt ==
    /\ ltBuilt => lt = ltOrig
    /\ bpt = bptOrig

\* C9 amended: every operation other than zeroize leaves the entries of the
\* tables as they were; zeroize overwrites every entry with the identity
C9_OnlyZeroizeChangesEntries ==
    [][/\ bpt # <<>> => bpt' = bpt
       /\ ltBuilt => IF op' = "zeroize"
                     THEN lt' = [i \in 1 .. ltN |-> AffineIdentity]
                     ELSE lt' = lt]_vars

C9_Witness ==
    /\ op = "get_point" /\ ltBuilt /\ lt # ltOrig
    /\ ret.kind = "point"

\* C10: Fp6::invert returns no value exactly when the element is zero, and
\* for every non-zero element a it returns b with a * b = Fp6::one()
C10_InvertIsInverse ==
    (op = "fp6_invert") =>
        /\ (fres.kind = "none") <=> Fp6IsZero(fa)
        /\ fres.kind = "some" => Fp6Mul(fa, fres.v) = Fp6One

C10_Witness ==
    /\ op = "fp6_invert" /\ fres.kind = "some"
    /\ ~Fp2IsZero(fa.c0) /\ ~Fp2IsZero(fa.c1) /\ ~Fp2IsZero(fa.c2)
    /\ fa.c2.c1 # 0 /\ fres.v # fa
    /\ ~Fp2IsZero(fres.v.c1)

\* acc * a^e in Fp6 for a natural number e, by squaring
RECURSIVE Fp6PowAcc(_, _, _)
Fp6PowAcc(a, e, acc) ==
    IF e = 0 \/ a \notin Fp6Elements \/ acc \notin Fp6Elements THEN acc
    ELSE Fp6PowAcc(Fp6Mul(a, a), e \div 2,
                   IF e % 2 = 1 THEN Fp6Mul(acc, a) ELSE acc)

Fp6Pow(a, e) == Fp6PowAcc(a, e, Fp6One)

\* the norm of a down to Fp2: the product a * a^(p^2) * a^(p^4) of a and
\* its conjugates over Fp2
Fp6Norm(a) == Fp6Pow(a, 1 + (FpModulus ^ 2) + (FpModulus ^ 4))

Fp2IsSquare(x) == \E c \in Fp2Elements : Fp2Square(c) = x

\* a is the square of an element of Fp6: it is zero, or its norm down to
\* Fp2, an element of Fp2, is a square there
Fp6IsSquare(a) ==
    \/ Fp6IsZero(a)
    \/ LET n == Fp6Norm(a)
       IN  /\ n \in Fp6Elements
           /\ Fp2IsZero(n.c1) /\ Fp2IsZero(n.c2)
           /\ Fp2IsSquare(n.c0)

\* C11: for every element a that is the square of some element c, zero
\* included, sqrt_vartime(a) returns Some(b) with b.square() = a
C11_SqrtOfSquare ==
    (op = "fp6_sqrt" /\ fa = Fp6Square(fb)) =>
        /\ fres.kind = "some"
        /\ Fp6Square(fres.v) = fa

\* C12: sqrt_vartime returns None for every element that is not a square,
\* and whenever it returns Some(r), r.square() is the input
C12_SqrtFailsOnNonResidue ==
    (op = "fp6_sqrt") =>
        /\ ~Fp6IsSquare(fa) => fres.kind = "none"
        /\ fres.kind = "some" => Fp6Square(fres.v) = fa

C12_Witness ==
    /\ op = "fp6_sqrt" /\ ~Fp6IsSquare(fa) /\ ~Fp2IsZero(fa.c2)
    /\ fres.kind = "none"

\* the six base field coefficients of an element, the most significant first
Fp6Coefficients(a) == <<a.c2.c1, a.c2.c0, a.c1.c1, a.c1.c0, a.c0.c1, a.c0.c0>>

\* the sequence s is strictly lexicographically larger than t
LexLarger(s, t) ==
    \E i \in 1 .. Len(s) : s[i] > t[i] /\ \A j \in 1 .. (i - 1) : s[j] = t[j]

\* C13: lexicographically_largest is true exactly when the element is
\* strictly lexicographically larger than its negation, c2 compared first,
\* then c1 when c2 is zero, then c0 when c2 and c1 are zero
C13_LargestIffAboveNegation ==
    (op = "fp6_lexicographically_largest") =>
        (fres.v <=> LexLarger(Fp6Coefficients(fa), Fp6Coefficients(Fp6Neg(fa))))

\* the canonical values of the six coefficients in the order of the encoding
Fp6CanonicalValues(a) == <<a.c0.c0, a.c0.c1, a.c1.c0, a.c1.c1, a.c2.c0, a.c2.c1>>

\* the value of the eight bytes of coefficient k (0 .. 5) of an encoding,
\* the least significant byte first
EncodedValue(bytes, k) ==
    LET b == SubSeq(bytes, 8 * k + 1, 8 * k + 8)
    IN  b[1] + 256 * (b[2] + 256 * (b[3] + 256 * (b[4]
            + 256 * (b[5] + 256 * (b[6] + 256 * (b[7] + 256 * b[8]))))))

\* C14: from_bytes(to_bytes(a)) = a, and to_bytes(a) is 48 bytes, the six
\* coefficients c0.c0, c0.c1, c1.c0, c1.c1, c2.c0, c2.c1 out of Montgomery
\* form, eight little-endian bytes each
C14_BytesRoundTrip ==
    /\ (op = "fp6_from_bytes") => fres.v = fa
    /\ (op = "fp6_to_bytes") =>
           /\ Len(fres.v) = 48
           /\ \A i \in 1 .. 48 : fres.v[i] \in 0 .. 255
           /\ \A k \in 0 .. 5 : EncodedValue(fres.v, k) = Fp6CanonicalValues(fa)[k + 1]

C14_Witness ==
    /\ op = "fp6_from_bytes"
    /\ fres.v = fa
    /\ \A k \in 1 .. 6 : Fp6CanonicalValues(fa)[k] # 0
    /\ fa.c0.c0 # fa.c0.c1 /\ fa.c1.c0 # fa.c2.c1

\* every coefficient of the element is non-zero
Fp6AllNonZero(a) == ~Fp2IsZero(a.c0) /\ ~Fp2IsZero(a.c1) /\ ~Fp2IsZero(a.c2)

\* the schoolbook product of a and b reduced with v^3 = v + 2
Fp6Schoolbook(a, b) ==
    [c0 |-> Fp2Add(Fp2Mul(a.c0, b.c0),
                   Fp2Mul(Fp2New(2), Fp2Add(Fp2Mul(a.c1, b.c2), Fp2Mul(a.c2, b.c1)))),
     c1 |-> Fp2Add(Fp2Add(Fp2Add(Fp2Add(Fp2Mul(a.c0, b.c1), Fp2Mul(a.c1, b.c0)),
                                 Fp2Mul(a.c1, b.c2)), Fp2Mul(a.c2, b.c1)),
                   Fp2Mul(Fp2New(2), Fp2Mul(a.c2, b.c2))),
     c2 |-> Fp2Add(Fp2Add(Fp2Add(Fp2Mul(a.c0, b.c2), Fp2Mul(a.c1, b.c1)),
                          Fp2Mul(a.c2, b.c0)), Fp2Mul(a.c2, b.c2))]

\* C15: Fp6::mul returns the schoolbook product reduced with v^3 = v + 2,
\* and a * one = a
C15_MulIsSchoolbook ==
    (op = "fp6_mul") =>
        /\ fres.v = Fp6Schoolbook(fa, fb)
        /\ (fb = Fp6One) => fres.v = fa

C15_Witness ==
    /\ op = "fp6_mul"
    /\ Fp6AllNonZero(fa) /\ Fp6AllNonZero(fb)
    /\ fa.c1.c1 # 0 /\ fa.c2.c1 # 0
    /\ fres.v = Fp6Schoolbook(fa, fb)
    /\ fres.v # fa

\* C17: a.square() = a.mul(&a) for every element a
C17_SquareIsMul ==
    (op = "fp6_square") => fres.v = Fp6Mul(fa, fa)

C17_Witness ==
    /\ op = "fp6_square"
    /\ Fp6AllNonZero(fa)
    /\ fa.c0.c1 # 0 /\ fa.c1.c1 # 0 /\ fa.c2.c1 # 0
    /\ fres.v = Fp6Mul(fa, fa)
    /\ Fp6AllNonZero(fres.v)

\* C19: conditional_select(a, b, choice) is a for the choice 0 and b for
\* the choice 1, the three coefficients taken from the same operand
C19_SelectReturnsOperand ==
    (op = "fp6_conditional_select") =>
        /\ (arg = 0) => fres.v = fa
        /\ (arg = 1) => fres.v = fb

C19_Witness ==
    /\ op = "fp6_conditional_select"
    /\ arg = 1
    /\ fa.c0 # fb.c0 /\ fa.c1 # fb.c1 /\ fa.c2 # fb.c2
    /\ fres.v = fb

\* the call add_mixed_unchecked(p, a) is made in one of the edge cases
InEdgeCase(p, a) ==
    AccIsIdentity(p, a) \/ RhsIsIdentity(p, a) \/ SamePoint(p, a) \/ OppositePoint(p, a)

\* C16: in multiply and multiply_vartime no call of add_mixed_unchecked is
\* made in an edge case: neither the accumulator nor the affine point is the
\* identity, and the affine point is neither the accumulator nor its opposite
C16_CallsOutsideEdgeCases ==
    (op \in {"multiply", "multiply_vartime"} /\ ret.kind = "point") =>
        /\ Len(calls) = NumDigits + 1
        /\ \A i \in 1 .. Len(calls) : ~InEdgeCase(calls[i][1], calls[i][2])

OutOfRangeLookup ==
    op \in {"get_point", "get_point_vartime"} /\ ~InRange(arg, ltN)

\* C18: a digit outside [-N, N] handed to get_point or get_point_vartime
\* aborts before any entry is selected and is never turned into a returned
\* point
C18_OutOfRangeAborts ==
    OutOfRangeLookup => (ret = Panic /\ steps = <<>>)

\* C21: for every non-zero element x exactly one of x and -x is
\* lexicographically largest, never both and never neither
C21_ExactlyOneOfPairLargest ==
    (op = "fp6_lexicographically_largest" /\ ~Fp6IsZero(fa)) =>
        (fres.v <=> ~lexicographically_largest(Fp6Neg(fa)))

\* C23: in get_point and get_point_vartime, for every table size N <= 127
\* and every digit x in [-N, N], x + (x >> 7) does not overflow an i8,
\* xabs = (x + (x >> 7)) ^ (x >> 7) is |x|, and the negation flag
\* (x >> 7) & 1 is 1 exactly when x < 0
C23_AbsAndSignOfDigit ==
    (op \in {"get_point_digit", "get_point_vartime_digit"} /\ arg \in (-ltN) .. ltN) =>
        /\ ~AddOverflowsI8(arg, Shr7(arg))
        /\ ret # Panic
        /\ ret.xabs = (IF arg < 0 THEN -arg ELSE arg)
        /\ (ret.neg = 1) <=> (arg < 0)
\* the most negative digit of the largest table, in a debug build
C23_Witness ==
    /\ op = "get_point_digit"
    /\ debug
    /\ ltN = I8Max
    /\ arg = -I8Max
    /\ ret = [kind |-> "digit", xmask |-> -1, xabs |-> I8Max, neg |-> 1]

\* C22: sqrt_vartime terminates on every input: after the residue check the
\* search loop reaches, in finitely many iterations, an a for which
\* a^2 - self is a non-residue
C22_SqrtTerminates == <>(op = "fp6_sqrt_done")
====
